---- MODULE Spec2Model ----
(***************************************************************************)
(* Model of the arithmetic expression evaluator of src/Expression.h:       *)
(* class Expression (tokenizer, shunting-yard converter, RPN evaluator).   *)
(*                                                                         *)
(* A C++ string is a sequence of one-character strings; a token is such a  *)
(* sequence; a vector<string> is a sequence of tokens.                     *)
(*                                                                         *)
(* A double is one of                                                      *)
(*   <<"num", n>>        the integer n, held exactly                       *)
(*   <<"dec", s, d, x>>  sign s, digits d, times 10^x: no small integer    *)
(*   <<"inf", s>>        s = 1: +infinity, s = -1: -infinity               *)
(*   <<"nan">>           NaN, also the Undefined sentinel                  *)
(*   <<"sym", c>>        the float constant c of defaultVariables          *)
(*   <<"neg", v>>        -1.0 * v for a v that is not held exactly         *)
(*   <<"op", o, a, b>>   a o b when the result is not held exactly         *)
(*   <<"fn", f, v>>      the function f applied to v                       *)
(* Arithmetic is exact on "num" while the result is an integer of at most  *)
(* IntCap; everything else keeps the computation as a term, so two values  *)
(* that are equal in the model are equal doubles in the program.           *)
(***************************************************************************)
EXTENDS Integers, Sequences, FiniteSets, TLC

\* ------------------------------------------------------------------ bounds

\* Largest number of lexemes of an input text.
MaxLen == 4

\* Largest number of digits of an integer literal.
MaxDigits == 8

\* Largest magnitude of an integer the value model holds exactly.
IntCap == 1000000000

\* ------------------------------------------------------------- characters

Digits == <<"0", "1", "2", "3", "4", "5", "6", "7", "8", "9">>

DigitChars == {Digits[i] : i \in 1..10}

DigitVal(c) == (CHOOSE i \in 1..10 : Digits[i] = c) - 1

DigitChar(d) == Digits[d + 1]

\* isspace() of the C locale, as strtod skips it.
IsSpaceChar(c) == c \in {" ", "\t", "\n", "\r", "\f"}

\* The characters find_first_of splits the text at.
SpecialChars == {"(", ")", "+", "-", "*", "/", "^", "~"}

RECURSIVE Flatten(_)
\* Concatenation of a sequence of strings.
Flatten(ss) == IF ss = <<>> THEN <<>> ELSE Head(ss) \o Flatten(Tail(ss))

\* std::string::substr(pos, n), pos counted from 0; n may run past the end.
Substr(s, pos, n) ==
    LET last == IF pos + n > Len(s) THEN Len(s) ELSE pos + n
    IN  IF pos >= Len(s) THEN <<>> ELSE SubSeq(s, pos + 1, last)

\* ------------------------------------------------------- whitespace removal

RECURSIVE RemoveFirstSpace(_)
\* An erase of the first ' ' only.
RemoveFirstSpace(s) ==
    IF s = <<>> THEN s
    ELSE IF Head(s) = " " THEN Tail(s)
    ELSE <<Head(s)>> \o RemoveFirstSpace(Tail(s))

\* text.erase(std::remove(text.begin(), text.end(), ' '), text.end())
RemoveSpaces(s) == SelectSeq(s, LAMBDA c : c # " ")

\* -------------------------------------------------------------- tokenizer

RECURSIVE ParenScanNoStop(_, _, _)
\* checkParenthesis without "&& cnt >= 0" in its loop condition: a count that
\* went negative can come back to zero.
ParenScanNoStop(text, pos, cnt) ==
    IF pos < Len(text)
    THEN ParenScanNoStop(text, pos + 1,
                         IF text[pos + 1] = "(" THEN cnt + 1
                         ELSE IF text[pos + 1] = ")" THEN cnt - 1
                         ELSE cnt)
    ELSE cnt

RECURSIVE ParenScan(_, _, _)
\* The loop of checkParenthesis: pos counted from 0, stops once cnt < 0.
ParenScan(text, pos, cnt) ==
    IF pos < Len(text) /\ cnt >= 0
    THEN ParenScan(text, pos + 1,
                   IF text[pos + 1] = "(" THEN cnt + 1
                   ELSE IF text[pos + 1] = ")" THEN cnt - 1
                   ELSE cnt)
    ELSE cnt

checkParenthesis(text) == ParenScan(text, 0, 0) = 0

RECURSIVE FindFirstOf(_, _)
\* text.find_first_of("()+-*/^~", pos): a 0-based index, or -1 for npos.
FindFirstOf(text, pos) ==
    IF pos >= Len(text) THEN -1
    ELSE IF text[pos + 1] \in SpecialChars THEN pos
    ELSE FindFirstOf(text, pos + 1)

RECURSIVE TokenLoopKeepEmpty(_, _, _)
\* The loop of getTokens without its two "token.length() > 0" tests: the text
\* before a special character is pushed even when there is none.
TokenLoopKeepEmpty(text, pos, tokens) ==
    LET nextPos == FindFirstOf(text, pos)
    IN  IF nextPos # -1
        THEN TokenLoopKeepEmpty(text, nextPos + 1,
                                Append(Append(tokens, Substr(text, pos, nextPos - pos)),
                                       <<text[nextPos + 1]>>))
        ELSE Append(tokens, Substr(text, pos, Len(text)))

RECURSIVE TokenLoop(_, _, _)
\* The while loop of getTokens and the code after it.
TokenLoop(text, pos, tokens) ==
    LET nextPos == FindFirstOf(text, pos)
    IN  IF nextPos # -1
        THEN LET opchar == <<text[nextPos + 1]>>
                 token  == Substr(text, pos, nextPos - pos)
                 pushed == IF Len(token) > 0 THEN Append(tokens, token) ELSE tokens
             IN  TokenLoop(text, nextPos + 1, Append(pushed, opchar))
        ELSE LET token == Substr(text, pos, Len(text))
             IN  IF Len(token) > 0 THEN Append(tokens, token) ELSE tokens

getTokens(text) ==
    IF ~checkParenthesis(text) THEN <<>> ELSE TokenLoop(text, 0, <<>>)

\* ----------------------------------------------------------------- values

NaN == <<"nan">>

Inf(s) == <<"inf", s>>

Num(n) == <<"num", n>>

IsNum(v) == v[1] = "num"

IsNaN(v) == v[1] = "nan"

Abs(n) == IF n < 0 THEN -n ELSE n

RECURSIVE DigitsToInt(_, _)
\* The integer a digit string of at most 9 digits denotes.
DigitsToInt(ds, acc) ==
    IF ds = <<>> THEN acc ELSE DigitsToInt(Tail(ds), 10 * acc + DigitVal(Head(ds)))

RECURSIVE IntToDigits(_)
\* The decimal digits of n >= 0, without leading zeros ("0" for 0).
IntToDigits(n) ==
    IF n < 10 THEN <<DigitChar(n)>> ELSE Append(IntToDigits(n \div 10), DigitChar(n % 10))

RECURSIVE Pow10(_)
Pow10(k) == IF k = 0 THEN 1 ELSE 10 * Pow10(k - 1)

RECURSIVE StripLeadingZeros(_)
StripLeadingZeros(ds) ==
    IF ds # <<>> /\ Head(ds) = "0" THEN StripLeadingZeros(Tail(ds)) ELSE ds

RECURSIVE TrailingZeros(_)
\* How many "0" a digit string ends with.
TrailingZeros(ds) ==
    IF ds # <<>> /\ ds[Len(ds)] = "0"
    THEN 1 + TrailingZeros(SubSeq(ds, 1, Len(ds) - 1))
    ELSE 0

Zeros(k) == [i \in 1..k |-> "0"]

\* The double with sign s that the digits ds scaled by 10^x denote: an exact
\* integer when it has at most 9 digits, infinity beyond the range of a double
\* (decimal exponent above 308), a decimal otherwise.
DecMake(s, d, e) ==
    IF d = <<>> THEN Num(0)
    ELSE IF Len(d) + e - 1 > 308 THEN Inf(s)
    ELSE IF e >= 0 /\ Len(d) + e <= 9 THEN Num(s * DigitsToInt(d, 0) * Pow10(e))
    ELSE <<"dec", s, d, e>>

StripTrailingZeros(ds) == SubSeq(ds, 1, Len(ds) - TrailingZeros(ds))

DecNorm(s, d0, x) == DecMake(s, StripTrailingZeros(d0), x + TrailingZeros(d0))

DecValue(s, ds, x) == DecNorm(s, StripLeadingZeros(ds), x)

\* --------------------------------------------------------- strtod, getNumber

RECURSIVE SkipSpace(_)
SkipSpace(s) == IF s # <<>> /\ IsSpaceChar(Head(s)) THEN SkipSpace(Tail(s)) ELSE s

RECURSIVE DigitPrefixLen(_)
\* Length of the longest prefix of s made of decimal digits.
DigitPrefixLen(s) ==
    IF s # <<>> /\ Head(s) \in DigitChars THEN 1 + DigitPrefixLen(Tail(s)) ELSE 0

Drop(s, k) == SubSeq(s, k + 1, Len(s))

SignOf(s) == IF s # <<>> /\ Head(s) = "-" THEN -1 ELSE 1

DropSign(s) == IF s # <<>> /\ Head(s) \in {"+", "-"} THEN Tail(s) ELSE s

DigitPrefix(s) == SubSeq(s, 1, DigitPrefixLen(s))

AfterDigits(s) == Drop(s, DigitPrefixLen(s))

\* The value of an exponent's digits; one of more than 4 digits is out of the
\* range of a double whatever the mantissa.
ExpValue(ds) ==
    IF Len(StripLeadingZeros(ds)) > 4 THEN 99999 ELSE DigitsToInt(StripLeadingZeros(ds), 0)

\* strtod, last stage: mantissa digits ds with nf of them after the point, the
\* exponent expo, and rest, what follows the number. p ends on the NUL when
\* nothing follows.
StrtodEnd(sgn, ds, nf, expo, rest) ==
    [end |-> rest = <<>>,
     val |-> IF expo < -400 THEN Num(0) ELSE DecValue(sgn, ds, expo - nf)]

\* strtod, the exponent: 'e' or 'E', an optional sign, and at least one digit;
\* an 'e' that no digit follows is not part of the number.
StrtodExp(sgn, ds, nf, s4) ==
    IF ds = <<>> THEN [end |-> FALSE, val |-> Num(0)]
    ELSE IF /\ s4 # <<>>
            /\ Head(s4) \in {"e", "E"}
            /\ DigitPrefixLen(DropSign(Tail(s4))) > 0
    THEN StrtodEnd(sgn, ds, nf,
                   SignOf(Tail(s4)) * ExpValue(DigitPrefix(DropSign(Tail(s4)))),
                   AfterDigits(DropSign(Tail(s4))))
    ELSE StrtodEnd(sgn, ds, nf, 0, s4)

\* strtod, the fraction: a point and the digits after it.
StrtodFrac(sgn, ipart, s3) ==
    IF s3 # <<>> /\ Head(s3) = "."
    THEN StrtodExp(sgn, ipart \o DigitPrefix(Tail(s3)), DigitPrefixLen(Tail(s3)),
                   AfterDigits(Tail(s3)))
    ELSE StrtodExp(sgn, ipart, 0, s3)

\* strtod after the white space and the sign.
StrtodBody(sgn, s2) ==
    IF s2 \in {<<"i", "n", "f">>, <<"i", "n", "f", "i", "n", "i", "t", "y">>}
    THEN [end |-> TRUE, val |-> Inf(sgn)]
    ELSE IF s2 = <<"n", "a", "n">> THEN [end |-> TRUE, val |-> NaN]
    ELSE StrtodFrac(sgn, DigitPrefix(s2), AfterDigits(s2))

\* strtod(str, &p) on the decimal, "inf" and "nan" forms (hexadecimal forms and
\* upper-case spellings are outside the alphabets of the model): the value
\* converted and whether p ends on the terminating NUL (*p == 0). With no
\* conversion p is str itself, so only the empty string is then accepted.
Strtod(str) ==
    IF str = <<>> THEN [end |-> TRUE, val |-> Num(0)]
    ELSE StrtodBody(SignOf(SkipSpace(str)), DropSign(SkipSpace(str)))

\* getNumber: a leading '~' is rewritten to '-' before strtod.
TildeToMinus(str) ==
    IF Len(str) > 0 /\ str[1] = "~" THEN <<"-">> \o Tail(str) ELSE str

getNumber(str) ==
    LET r == Strtod(TildeToMinus(str)) IN [ok |-> r.end, val |-> r.val]

\* ---------------------------------------------------------- numberToString

\* The first 6 significant digits as an integer n, after rounding, with the
\* decimal exponent e of the first digit before rounding.
Rounded(n, e) ==
    [d |-> StripTrailingZeros(IntToDigits(n)),
     e |-> IF Len(IntToDigits(n)) > 6 THEN e + 1 ELSE e]

\* Whether the digits rest that follow the 6th digit round it up: to nearest,
\* ties to even.
RoundsUp(sixth, rest) ==
    IF DigitVal(rest[1]) = 5 /\ Len(rest) = 1 THEN DigitVal(sixth) % 2 = 1
    ELSE DigitVal(rest[1]) >= 5

\* The significant digits d (at most 6 kept) with decimal exponent e of the first
\* digit, rounded: operator<< on a double with the stream's default precision
\* of 6.
RoundSig(d, e) ==
    IF Len(d) <= 6 THEN [d |-> d, e |-> e]
    ELSE Rounded(DigitsToInt(SubSeq(d, 1, 6), 0)
                   + (IF RoundsUp(d[6], Drop(d, 6)) THEN 1 ELSE 0), e)

\* The digits d padded with zeros to at least k digits.
PadTo(d, k) == IF Len(d) >= k THEN d ELSE d \o Zeros(k - Len(d))

\* An exponent as printf prints it: a sign and at least two digits.
ExpDigits(e) ==
    <<IF e < 0 THEN "-" ELSE "+">> \o (IF Abs(e) < 10 THEN <<"0">> ELSE <<>>)
        \o IntToDigits(Abs(e))

\* printf's %g of the rounded digits: scientific when the exponent is below -4
\* or at least the precision, fixed otherwise; trailing zeros are not printed.
FormatG(d, e) ==
    IF e < -4 \/ e >= 6
    THEN <<d[1]>> \o (IF Len(d) > 1 THEN <<".">> \o Tail(d) ELSE <<>>)
         \o <<"e">> \o ExpDigits(e)
    ELSE IF e >= 0
    THEN SubSeq(PadTo(d, e + 1), 1, e + 1)
         \o (IF Len(d) > e + 1 THEN <<".">> \o Drop(d, e + 1) ELSE <<>>)
    ELSE <<"0", ".">> \o Zeros(-e - 1) \o d

FormatRounded(r) == FormatG(r.d, r.e)

\* The digits d0 times 10^x, printed.
FormatDigits(d0, x) ==
    FormatRounded(RoundSig(StripTrailingZeros(d0),
                           Len(d0) + x - 1))

SignChars(neg) == IF neg THEN <<"-">> ELSE <<>>

\* numberToString: ostringstream << val.
numberToString(val) ==
    CASE val[1] = "nan" -> <<"n", "a", "n">>
      [] val[1] = "inf" -> SignChars(val[2] < 0) \o <<"i", "n", "f">>
      [] val[1] = "num" -> SignChars(val[2] < 0) \o FormatDigits(IntToDigits(Abs(val[2])), 0)
      [] val[1] = "dec" -> SignChars(val[2] < 0) \o FormatDigits(val[3], val[4])

\* -------------------------------------------------------------- arithmetic

\* -1.0 * x (the model has one zero: the sign of a zero is not kept).
Neg(v) ==
    CASE v[1] = "num" -> Num(-v[2])
      [] v[1] = "nan" -> NaN
      [] v[1] = "inf" -> Inf(-v[2])
      [] v[1] = "dec" -> <<"dec", -v[2], v[3], v[4]>>
      [] v[1] = "neg" -> v[2]
      [] OTHER -> <<"neg", v>>

RECURSIVE IntPow(_, _, _)
\* acc * a^b for |a| >= 2 and b >= 0, or 0 once the magnitude passes IntCap.
IntPow(a, b, acc) ==
    IF b = 0 THEN acc
    ELSE IF Abs(acc) > IntCap \div Abs(a) THEN 0
    ELSE IntPow(a, b - 1, acc * a)

\* pow(a, b) on integers.
PowInt(a, b) ==
    IF b = 0 \/ a = 1 THEN Num(1)
    ELSE IF a = 0 THEN (IF b > 0 THEN Num(0) ELSE Inf(1))
    ELSE IF a = -1 THEN (IF Abs(b) % 2 = 0 THEN Num(1) ELSE Num(-1))
    ELSE IF b < 0 \/ IntPow(a, b, 1) = 0 THEN <<"op", "^", Num(a), Num(b)>>
    ELSE Num(IntPow(a, b, 1))

\* a op b on two integers held exactly.
CalcInt(a, b, op) ==
    LET sign == IF (a < 0) = (b < 0) THEN 1 ELSE -1
        term == <<"op", op, Num(a), Num(b)>>
    IN  CASE op = "+" -> IF Abs(a + b) <= IntCap THEN Num(a + b) ELSE term
          [] op = "-" -> IF Abs(a - b) <= IntCap THEN Num(a - b) ELSE term
          [] op = "*" -> IF a = 0 \/ b = 0 THEN Num(0)
                         ELSE IF Abs(a) <= IntCap \div Abs(b) THEN Num(a * b)
                         ELSE term
          [] op = "/" -> IF b = 0
                         THEN (IF a = 0 THEN NaN ELSE Inf(IF a > 0 THEN 1 ELSE -1))
                         ELSE IF Abs(a) % Abs(b) = 0
                         THEN Num(sign * (Abs(a) \div Abs(b)))
                         ELSE term
          [] op = "^" -> PowInt(a, b)

\* calculate: the result of the binary operation, NAN for any other op.
calculate(a, b, op) ==
    IF op \notin {"+", "-", "*", "/", "^"} THEN NaN
    ELSE IF IsNum(a) /\ IsNum(b) THEN CalcInt(a[2], b[2], op)
    ELSE IF op = "^" /\ (b = Num(0) \/ a = Num(1)) THEN Num(1)
    ELSE IF IsNaN(a) \/ IsNaN(b) THEN NaN
    ELSE <<"op", op, a, b>>

\* calculateUnary: the result of the unary operation, NAN for any other op.
calculateUnary(x, op) == IF op = "~" THEN Neg(x) ELSE NaN

\* ------------------------------------------------------- symbol classifier

Tok(str) == <<str>>

isOperator(str) ==
    str \in {Tok("+"), Tok("-"), Tok("*"), Tok("/"), Tok("^"), Tok("~")}

\* isLeftAssociative with "^" listed too: chained powers would group to the left.
isLeftAssociativeAll(str) ==
    str \in {Tok("+"), Tok("-"), Tok("*"), Tok("/"), Tok("^")}

isLeftAssociative(str) == str \in {Tok("+"), Tok("-"), Tok("*"), Tok("/")}

isBinaryOperator(str) == str \in {Tok("+"), Tok("-"), Tok("*"), Tok("/"), Tok("^")}

isUnaryOperator(str) == str = Tok("~")

\* precedence without its case for "~": the unary operator gets the 0 of an
\* unknown operator.
precedenceBinaryOnly(op) ==
    IF op \in {Tok("+"), Tok("-")} THEN 1
    ELSE IF op \in {Tok("*"), Tok("/")} THEN 2
    ELSE IF op = Tok("^") THEN 3
    ELSE 0

precedence(op) ==
    IF op \in {Tok("+"), Tok("-")} THEN 1
    ELSE IF op \in {Tok("*"), Tok("/")} THEN 2
    ELSE IF op \in {Tok("^"), Tok("~")} THEN 3
    ELSE 0

RECURSIVE VarLookup(_, _, _)
\* The loop of isVariable from entry i on: the first entry whose name, or whose
\* name after a '~', is the token.
VarLookup(name, vars, i) ==
    IF i > Len(vars) THEN [ok |-> FALSE, val |-> NaN]
    ELSE IF vars[i].name = name THEN [ok |-> TRUE, val |-> vars[i].val]
    ELSE IF <<"~">> \o vars[i].name = name THEN [ok |-> TRUE, val |-> Neg(vars[i].val)]
    ELSE VarLookup(name, vars, i + 1)

isVariable(name, vars) ==
    IF isOperator(name) THEN [ok |-> FALSE, val |-> NaN] ELSE VarLookup(name, vars, 1)

RECURSIVE FuncLookupLast(_, _, _)
\* A lookup in which a later entry of the table with the same name wins.
FuncLookupLast(name, functions, i) ==
    IF i > Len(functions) THEN 0
    ELSE IF FuncLookupLast(name, functions, i + 1) # 0
    THEN FuncLookupLast(name, functions, i + 1)
    ELSE IF functions[i].name = name THEN i
    ELSE 0

RECURSIVE FuncLookup(_, _, _)
\* The loop of isFunction from entry i on: the index of the first entry of the
\* table with that name, 0 when there is none.
FuncLookup(name, functions, i) ==
    IF i > Len(functions) THEN 0
    ELSE IF functions[i].name = name THEN i
    ELSE FuncLookup(name, functions, i + 1)

isFunction(name, functions) == FuncLookup(name, functions, 1)

\* func(val) for the function found by isFunction: the application is kept as
\* a term over the identity of the function applied.
ApplyFunction(name, functions, val) ==
    <<"fn", functions[isFunction(name, functions)].f, val>>

defaultFunctions ==
    << [name |-> <<"s", "i", "n">>,      f |-> "sin"],
       [name |-> <<"c", "o", "s">>,      f |-> "cos"],
       [name |-> <<"t", "a", "n">>,      f |-> "tan"],
       [name |-> <<"l", "n">>,           f |-> "log"],
       [name |-> <<"l", "o", "g">>,      f |-> "log10"],
       [name |-> <<"e", "x", "p">>,      f |-> "exp"],
       [name |-> <<"s", "q", "r", "t">>, f |-> "sqrt"],
       [name |-> <<"a", "b", "s">>,      f |-> "abs"] >>

defaultVariables ==
    << [name |-> <<"p", "i">>, val |-> <<"sym", "3.141592654f">>],
       [name |-> <<"e">>,      val |-> <<"sym", "2.718281828f">>] >>

\* ------------------------------------------------- shunting-yard converter

Top(stack) == stack[Len(stack)]

Pop(stack) == SubSeq(stack, 1, Len(stack) - 1)

RECURSIVE PopOperators(_, _)
\* The while loop of the operator case: o2 on top of the stack, which is not a
\* left parenthesis, goes to the output while it has greater precedence than
\* the token o1, or the same precedence and o1 is left-associative.
PopOperators(st, token) ==
    IF /\ st.operators # <<>>
       /\ Top(st.operators) # Tok("(")
       /\ \/ precedence(Top(st.operators)) > precedence(token)
          \/ /\ precedence(Top(st.operators)) = precedence(token)
             /\ isLeftAssociative(token)
    THEN PopOperators([rpn |-> Append(st.rpn, Top(st.operators)),
                       operators |-> Pop(st.operators)], token)
    ELSE st

RECURSIVE PopToParenAll(_)
\* The while loop of the right parenthesis case without its test of the top:
\* it pops until the stack is empty.
PopToParenAll(st) ==
    IF st.operators # <<>>
    THEN PopToParenAll([rpn |-> Append(st.rpn, Top(st.operators)),
                        operators |-> Pop(st.operators)])
    ELSE st

RECURSIVE PopToParen(_)
\* The while loop of the right parenthesis case.
PopToParen(st) ==
    IF st.operators # <<>> /\ Top(st.operators) # Tok("(")
    THEN PopToParen([rpn |-> Append(st.rpn, Top(st.operators)),
                     operators |-> Pop(st.operators)])
    ELSE st

\* The right parenthesis case without its last step: a function found on top of
\* the stack stays there.
CloseParenKeepFunction(st, functions) ==
    LET s1 == PopToParen(st)
    IN  IF s1.operators # <<>> /\ Top(s1.operators) = Tok("(")
        THEN [s1 EXCEPT !.operators = Pop(s1.operators)]
        ELSE s1

\* The right parenthesis case: pop to the left parenthesis, discard it, and move
\* a function found on top of the stack to the output.
CloseParen(st, functions) ==
    LET s1 == PopToParen(st)
        s2 == IF s1.operators # <<>> /\ Top(s1.operators) = Tok("(")
              THEN [s1 EXCEPT !.operators = Pop(s1.operators)]
              ELSE s1
    IN  IF s2.operators # <<>> /\ isFunction(Top(s2.operators), functions) # 0
        THEN [rpn |-> Append(s2.rpn, Top(s2.operators)), operators |-> Pop(s2.operators)]
        ELSE s2

\* One iteration of the for loop of getRPN, on the token read; num is what
\* getNumber(token, val) gives.
RPNToken(st, token, num, functions) ==
    IF num.ok
    THEN [st EXCEPT !.rpn = Append(st.rpn, numberToString(num.val))]
    ELSE IF isFunction(token, functions) # 0
    THEN [st EXCEPT !.operators = Append(st.operators, token)]
    ELSE IF isOperator(token)
    THEN LET s1 == PopOperators(st, token)
         IN  [s1 EXCEPT !.operators = Append(s1.operators, token)]
    ELSE IF token = Tok("(")
    THEN [st EXCEPT !.operators = Append(st.operators, token)]
    ELSE IF token = Tok(")")
    THEN CloseParen(st, functions)
    ELSE [st EXCEPT !.rpn = Append(st.rpn, token)]

RPNStep(st, token, functions) == RPNToken(st, token, getNumber(token), functions)

RECURSIVE RPNLoop(_, _, _, _)
\* The for loop of getRPN from token i on.
RPNLoop(st, input, i, functions) ==
    IF i > Len(input) THEN st
    ELSE RPNLoop(RPNStep(st, input[i], functions), input, i + 1, functions)

RECURSIVE DrainOperators(_)
\* The final while loop of getRPN: what is left on the stack goes to the
\* output, except a left parenthesis.
DrainOperators(st) ==
    IF st.operators = <<>> THEN st
    ELSE DrainOperators(
           [rpn |-> IF Top(st.operators) # Tok("(")
                    THEN Append(st.rpn, Top(st.operators))
                    ELSE st.rpn,
            operators |-> Pop(st.operators)])

getRPN(tokens, functions) ==
    DrainOperators(RPNLoop([rpn |-> <<>>, operators |-> <<>>], tokens, 1, functions)).rpn

\* ------------------------------------------------------------ RPN evaluator

\* The loop body of evalRPN with a return where the code has none: an operator
\* that lacks operands, or a name that nothing resolves, ends the evaluation.
EvalItemStrict(values, item, num, var, functions) ==
    IF num.ok
    THEN [values |-> Append(values, num.val), returned |-> FALSE]
    ELSE IF isFunction(item, functions) # 0
    THEN IF values = <<>>
         THEN [values |-> values, returned |-> TRUE]
         ELSE [values |-> Append(Pop(values),
                                 ApplyFunction(item, functions, Top(values))),
               returned |-> FALSE]
    ELSE IF isOperator(item)
    THEN IF isBinaryOperator(item) /\ Len(values) >= 2
         THEN [values |-> Append(Pop(Pop(values)),
                                 calculate(Top(Pop(values)), Top(values), item[1])),
               returned |-> FALSE]
         ELSE IF isUnaryOperator(item) /\ Len(values) > 0
         THEN [values |-> Append(Pop(values), calculateUnary(Top(values), item[1])),
               returned |-> FALSE]
         ELSE [values |-> values, returned |-> TRUE]
    ELSE IF var.ok
    THEN [values |-> Append(values, var.val), returned |-> FALSE]
    ELSE [values |-> values, returned |-> TRUE]

\* One iteration of the for loop of evalRPN on the item read: the value stack
\* after it, and whether the function returned from inside the loop. num is what
\* getNumber(item, val) gives and var what isVariable(item, vars, val) gives.
EvalItem(values, item, num, var, functions) ==
    IF num.ok
    THEN [values |-> Append(values, num.val), returned |-> FALSE]
    ELSE IF isFunction(item, functions) # 0
    THEN IF values = <<>>
         THEN [values |-> values, returned |-> TRUE]
         ELSE [values |-> Append(Pop(values),
                                 ApplyFunction(item, functions, Top(values))),
               returned |-> FALSE]
    ELSE IF isOperator(item)
    THEN IF isBinaryOperator(item) /\ Len(values) >= 2
         THEN LET b == Top(values)
                  a == Top(Pop(values))
              IN  [values |-> Append(Pop(Pop(values)), calculate(a, b, item[1])),
                   returned |-> FALSE]
         ELSE IF isUnaryOperator(item) /\ Len(values) > 0
         THEN [values |-> Append(Pop(values), calculateUnary(Top(values), item[1])),
               returned |-> FALSE]
         ELSE [values |-> values, returned |-> FALSE]
    ELSE IF var.ok
    THEN [values |-> Append(values, var.val), returned |-> FALSE]
    ELSE [values |-> values, returned |-> FALSE]

EvalStep(values, item, vars, functions) ==
    EvalItem(values, item, getNumber(item), isVariable(item, vars), functions)

RECURSIVE EvalLoop(_, _, _, _, _)
\* The for loop of evalRPN from item i on. stacks[k] is the value stack after
\* item k; the loop stops at the item it returns from.
EvalLoop(stacks, rpn, i, vars, functions) ==
    IF i > Len(rpn) THEN [stacks |-> stacks, returned |-> FALSE]
    ELSE LET values == IF stacks = <<>> THEN <<>> ELSE stacks[Len(stacks)]
             s == EvalStep(values, rpn[i], vars, functions)
         IN  IF s.returned THEN [stacks |-> stacks, returned |-> TRUE]
             ELSE EvalLoop(Append(stacks, s.values), rpn, i + 1, vars, functions)

\* evalRPN returning the top of the value stack whenever there is one, without
\* the test "values.size() == 1".
evalRPNTop(rpn, vars, functions) ==
    LET run    == EvalLoop(<<>>, rpn, 1, vars, functions)
        values == IF run.stacks = <<>> THEN <<>> ELSE run.stacks[Len(run.stacks)]
    IN  [result   |-> IF ~run.returned /\ Len(values) >= 1 THEN Top(values) ELSE NaN,
         stacks   |-> run.stacks,
         returned |-> run.returned]

\* evalRPN: the result, with the value stack after each item (stacks) and
\* whether the pass was cut short by a return from inside the loop.
evalRPN(rpn, vars, functions) ==
    LET run    == EvalLoop(<<>>, rpn, 1, vars, functions)
        values == IF run.stacks = <<>> THEN <<>> ELSE run.stacks[Len(run.stacks)]
    IN  [result   |-> IF ~run.returned /\ Len(values) = 1 THEN Top(values) ELSE NaN,
         stacks   |-> run.stacks,
         returned |-> run.returned]

\* ------------------------------------------------------------------ inputs

\* The texts of at most n lexemes drawn from lex (a lexeme is a string).
TextsOver(lex, n) == {Flatten(w) : w \in UNION {[1..k -> lex] : k \in 0..n}}

Var(name, n) == [name |-> name, val |-> Num(n)]

\* The argument of eval(double).
XValues == {2}

\* The argument of eval(vector<Variable>): the driver's {{"a", v}}, and a list
\* that names a default constant.
VarLists == { <<Var(<<"a">>, 3)>>, <<Var(<<"p", "i">>, 3)>> }

\* ------------------------------------------------------------------- state

VARIABLES
    exprText,    \* the constructor's argument exprText
    funcsArg,    \* the constructor's argument funcs; given: the two-argument form
    text,        \* Expression::text
    functions,   \* Expression::functions
    tokens,      \* Expression::tokens
    tokensStr,   \* Expression::tokensStr
    rpn,         \* Expression::rpn
    rpnStr,      \* Expression::rpnStr
    balanced,    \* Expression::balanced
    call,        \* the last evaluation call: its entry point and its argument
    result,      \* what that call returned
    stacks,      \* the value stack after each item of that call's pass
    returned,    \* whether that call returned from inside the loop
    first,       \* the first evaluation call made and what it returned
    between      \* whether a different call was made after the first

fields == <<text, functions, tokens, tokensStr, rpn, rpnStr, balanced>>

vars == <<exprText, funcsArg, text, functions, tokens, tokensStr, rpn, rpnStr,
          balanced, call, result, stacks, returned, first, between>>

NoCall == [kind |-> "none", vars |-> <<>>]

\* The loops of the constructor that print a vector: each item, then a space.
JoinTokens(ts) == Flatten([i \in 1..Len(ts) |-> ts[i] \o <<" ">>])

\* Expression(exprText, funcs): the state the constructor leaves.
Construct(t, funcs) ==
    LET stripped == RemoveSpaces(t)
        toks     == getTokens(stripped)
        out      == getRPN(toks, funcs)
    IN  /\ exprText = t
        /\ text = stripped
        /\ functions = funcs
        /\ balanced = checkParenthesis(stripped)
        /\ tokens = toks
        /\ rpn = out
        /\ tokensStr = JoinTokens(toks)
        /\ rpnStr = JoinTokens(out)
        /\ call = NoCall
        /\ result = NaN
        /\ stacks = <<>>
        /\ returned = FALSE
        /\ first = [call |-> NoCall, result |-> NaN]
        /\ between = FALSE

\* Expression(exprText): the constructor delegates with defaultFunctions().
ConstructDefault(t) ==
    /\ funcsArg = [given |-> FALSE, table |-> <<>>]
    /\ Construct(t, defaultFunctions)

\* Expression(exprText, funcs) called with a table of the caller.
ConstructCustom(t, funcs) ==
    /\ funcsArg = [given |-> TRUE, table |-> funcs]
    /\ Construct(t, funcs)

\* An evaluation that consumes the rpn member: its last item is gone after
\* the call.
EvalWithConsuming(vs) ==
    LET r == evalRPN(rpn, vs, functions)
    IN  /\ result' = r.result
        /\ stacks' = r.stacks
        /\ returned' = r.returned
        /\ first' = IF first.call = NoCall THEN [call |-> call', result |-> r.result]
                    ELSE first
        /\ between' = (between \/ (first.call # NoCall /\ call' # first.call))
        /\ rpn' = IF rpn = <<>> THEN rpn ELSE Pop(rpn)
        /\ UNCHANGED <<exprText, funcsArg, text, functions, tokens, tokensStr, rpnStr,
                       balanced>>

\* eval(vector<Variable> vars): evalRPN on the rpn member with the list vs.
\* The entry point called has recorded itself in call'.
EvalWith(vs) ==
    LET r == evalRPN(rpn, vs, functions)
    IN  /\ result' = r.result
        /\ stacks' = r.stacks
        /\ returned' = r.returned
        /\ first' = IF first.call = NoCall THEN [call |-> call', result |-> r.result]
                    ELSE first
        /\ between' = (between \/ (first.call # NoCall /\ call' # first.call))
        /\ UNCHANGED <<exprText, funcsArg, fields>>

\* eval(): the default variables.
Eval ==
    /\ call' = [kind |-> "eval", vars |-> <<>>]
    /\ EvalWith(defaultVariables)

\* The variable list eval(double val) builds: every entry named x is set to
\* val, and an entry x is added when there was none.
BindX(vs, val) ==
    LET set == [i \in 1..Len(vs) |->
                   IF vs[i].name = <<"x">> THEN [vs[i] EXCEPT !.val = val] ELSE vs[i]]
        updated == \E i \in 1..Len(vs) : vs[i].name = <<"x">>
    IN  IF updated THEN set ELSE Append(set, [name |-> <<"x">>, val |-> val])

\* eval(double val)
EvalX ==
    \E v \in XValues :
        /\ call' = [kind |-> "evalx", vars |-> <<Var(<<"x">>, v)>>]
        /\ EvalWith(BindX(defaultVariables, Num(v)))

\* eval(vector<Variable> vars) evaluating with the default variables after the
\* caller's list.
EvalVarsWithDefaults ==
    \E vs \in VarLists :
        /\ call' = [kind |-> "evalvars", vars |-> vs]
        /\ EvalWith(vs \o defaultVariables)

\* eval(vector<Variable> vars)
EvalVars ==
    \E vs \in VarLists :
        /\ call' = [kind |-> "evalvars", vars |-> vs]
        /\ EvalWith(vs)

Next == Eval \/ EvalX \/ EvalVars

\* ---------------------------------------------------------- specifications

\* Raw texts: parentheses, a literal, a binary and the unary operator, a name.
Lexemes == {<<"(">>, <<")">>, <<"1">>, <<"+">>, <<"~">>, <<"a">>}

\* Texts the specification and the driver (main.cpp) name.
Examples ==
    { <<"(", "1", "+", "2">>, <<")", "1", "+", "2", "(">>, <<"(", "1", "+", "2", ")">>,
      <<"2", "*", "a", " ", "+", " ", "1">>, <<"(", "1", ")", "(", "2", ")">>,
      <<"l", "n", "(", ")">>, <<"l", "n", "(", "e", ")">>,
      <<"e", "^", "~", "(", "x", "^", "2", ")", " ", "-", " ", "x">> }

Init == \E t \in TextsOver(Lexemes, MaxLen) \cup Examples : ConstructDefault(t)

Spec == Init /\ [][Next]_vars

\* Well-formed infix token sequences of exactly n tokens over the operands and
\* binary operators of g, with parentheses, and with the unary '~' before an
\* operand, a parenthesis or another '~' when g.neg.
RECURSIVE GenExpr(_, _)
RECURSIVE GenAtom(_, _)

GenAtom(g, n) ==
    (IF n = 1 THEN {<<o>> : o \in g.operands} ELSE {})
    \cup (IF n >= 3
          THEN {<<Tok("(")>> \o e \o <<Tok(")")>> : e \in GenExpr(g, n - 2)}
          ELSE {})
    \cup (IF g.neg /\ n >= 2 THEN {<<Tok("~")>> \o a : a \in GenAtom(g, n - 1)} ELSE {})

GenExpr(g, n) ==
    GenAtom(g, n) \cup UNION {
        {l \o <<o>> \o r : l \in GenExpr(g, k), o \in g.ops, r \in GenExpr(g, n - 1 - k)}
        : k \in 1..(n - 2)}

GenTexts(g, n) == {Flatten(ts) : ts \in UNION {GenExpr(g, k) : k \in 1..n}}

\* Infix expressions over two literals and the five binary operators.
InfixGrammar ==
    [operands |-> {Tok("2"), Tok("3")},
     ops |-> {Tok("+"), Tok("-"), Tok("*"), Tok("/"), Tok("^")},
     neg |-> FALSE]

\* The two texts the specification names, and longer ones over three levels of
\* precedence.
InfixExamples ==
    { <<"2", "^", "3", "^", "2">>, <<"8", "-", "3", "-", "2">>,
      <<"2", "+", "3", "*", "2", "^", "3">>, <<"2", "^", "3", "*", "3", "-", "2">>,
      <<"1", "2", "/", "(", "4", "-", "2", ")", "/", "3">>,
      <<"(", "2", "+", "3", ")", "*", "(", "7", "-", "2", "^", "2", "^", "2", ")">>,
      <<"2", "-", "3", "*", "4", "+", "6", "/", "3">> }

InfixTexts == GenTexts(InfixGrammar, MaxLen + 1) \cup InfixExamples

InitInfix == \E t \in InfixTexts : ConstructDefault(t)

SpecInfix == InitInfix /\ [][Next]_vars

\* Infix expressions with the unary '~' over a literal and a default constant,
\* and the binary operators of lower precedence.
NegGrammar ==
    [operands |-> {Tok("3"), <<"p", "i">>},
     ops |-> {Tok("+"), Tok("-"), Tok("*"), Tok("/")},
     neg |-> TRUE]

\* The four texts the specification names, and '~' next to '^'.
NegExamples ==
    { <<"3", "-", "1">>, <<"~", "3", "+", "1">>, <<"~", "(", "1", "+", "2", ")">>,
      <<"~", "p", "i">>, <<"~", "2", "^", "2">>, <<"2", "^", "~", "2">>,
      <<"2", "*", "~", "(", "x", "-", "~", "5", ")", "/", "~", "~", "a">> }

NegTexts == GenTexts(NegGrammar, MaxLen + 1) \cup NegExamples

InitNeg == \E t \in NegTexts : ConstructDefault(t)

SpecNeg == InitNeg /\ [][Next]_vars

\* Texts over the names of the default constants, the variable of eval(x), a
\* literal and two operators.
ConstLexemes == {<<"p", "i">>, <<"e">>, <<"x">>, <<"+">>, <<"~">>}

ConstExamples == { <<"2", "*", "p", "i">>, <<"a", "+", "e">>, <<"p", "i", "e">> }

InitConst == \E t \in TextsOver(ConstLexemes, MaxLen) \cup ConstExamples : ConstructDefault(t)

SpecConst == InitConst /\ [][Next]_vars

\* Function tables of a caller: two entries with one name, and an entry with
\* the name of a default function before an entry with a new name.
FuncTables ==
    { << [name |-> <<"f">>, f |-> "f1"], [name |-> <<"f">>, f |-> "f2"] >>,
      << [name |-> <<"s", "i", "n">>, f |-> "mysin"], [name |-> <<"f">>, f |-> "f1"] >> }

FuncLexemes == {<<"s", "i", "n">>, <<"f">>, <<"(">>, <<")">>, <<"1">>}

FuncExamples ==
    { <<"c", "o", "s", "(", "1", ")">>,
      <<"f", "(", "s", "i", "n", "(", "2", ")", "+", "l", "n", "(", "3", ")", ")">> }

InitFunc ==
    \E t \in TextsOver(FuncLexemes, MaxLen) \cup FuncExamples :
        \E funcs \in FuncTables : ConstructCustom(t, funcs)

SpecFunc == InitFunc /\ [][Next]_vars

\* Texts with spaces and tabs among a literal, an operator and a name.
WsLexemes == {<<" ">>, <<"\t">>, <<"1">>, <<"+">>, <<"a">>}

WsExamples ==
    { <<"2", "*", "a", " ", "+", " ", "1">>, <<"1", "\t", "+", "2">>,
      <<" ", "(", " ", "1", " ", "+", " ", " ", "2", " ", ")", " ">>,
      <<"1", "\n", "+", "\t", "a">> }

InitWs == \E t \in TextsOver(WsLexemes, MaxLen) \cup WsExamples : ConstructDefault(t)

SpecWs == InitWs /\ [][Next]_vars

\* Texts over a default function name, parentheses, a literal, a
\* left-associative and a right-associative operator.
ConvLexemes == {<<"l", "n">>, <<"(">>, <<")">>, <<"1">>, <<"+">>, <<"^">>}

\* Texts of the driver (expr9, the function calls of expr10) and nested calls.
ConvExamples ==
    { <<"s", "i", "n", "(", "x", ")">>,
      <<"s", "i", "n", "(", "t", "a", "n", "(", "x", "^", "3", ")", "+",
        "c", "o", "s", "(", "x", "-", "p", "i", ")", ")">>,
      <<"l", "n", "(", "(", "1", "+", "2", ")", "*", "3", ")">>,
      <<"(", "l", "n", "+", "1", ")">>,
      <<"2", "*", "l", "n", "(", "e", "x", "p", "(", "1", ")", ")", "^", "2">> }

InitConv == \E t \in TextsOver(ConvLexemes, MaxLen) \cup ConvExamples : ConstructDefault(t)

SpecConv == InitConv /\ [][Next]_vars

\* Texts that are one numeric literal: the integers of two digit characters,
\* and literals with zeros, a fraction or an exponent.
LitLexemes == {<<"1">>, <<"9">>}

LitExamples ==
    { <<"1", "2", "3", "4", "5", "6", "7">>, <<"1", "2", "3", "4", "5", "6", "7", "8">>,
      <<"1", "0", "0", "0", "0", "0", "0">>, <<"9", "9", "9", "9", "9", "9", "5">>,
      <<"1", "0", "0", "0", "0", "0">>, <<"0", "0", "7">>, <<"0", ".", "5">>,
      <<"1", "e", "2">>, <<"0", ".", "1", "2", "3", "4", "5", "6", "7">>,
      <<"1", ".", "5", "e", "3", "0">> }

InitLit == \E t \in TextsOver(LitLexemes, MaxDigits) \cup LitExamples : ConstructDefault(t)

SpecLit == InitLit /\ [][Next]_vars

\* ------------------------------------------------------------------ claims

FinalStack == IF stacks = <<>> THEN <<>> ELSE stacks[Len(stacks)]

Called == call.kind # "none"

RECURSIVE Depth(_, _)
\* The number of '(' minus the number of ')' among the first k characters.
Depth(s, k) ==
    IF k = 0 THEN 0
    ELSE Depth(s, k - 1) + (IF s[k] = "(" THEN 1 ELSE IF s[k] = ")" THEN -1 ELSE 0)

Unbalanced(s) ==
    \/ \E k \in 1..Len(s) : Depth(s, k) < 0
    \/ Depth(s, Len(s)) # 0

\* C1: a text whose parentheses are unbalanced (the running count goes negative
\* somewhere, or is not zero at the end) leaves the token sequence and the RPN
\* sequence empty, and every evaluation call on it returns NaN; a balanced text
\* that is not empty after stripping has a token.
C1_UnbalancedIsEmpty ==
    /\ Unbalanced(exprText) =>
          /\ tokens = <<>>
          /\ rpn = <<>>
          /\ ~balanced
          /\ Called => IsNaN(result)
    /\ (~Unbalanced(exprText) /\ text # <<>>) => tokens # <<>>

\* ")1+2(" was constructed and eval(x) returned NaN on it.
C1_Witness ==
    /\ exprText = <<")", "1", "+", "2", "(">>
    /\ call.kind = "evalx"
    /\ tokens = <<>>
    /\ IsNaN(result)

\* ---- a reference evaluator of infix token sequences, by recursive descent:
\* Expr := Term {(+|-) Term}, Term := Power {(*|/) Power},
\* Power := Atom [^ Power], Atom := literal | name | ( Expr ) | ~ Atom.
\* A '~' applies to the atom that follows it; a "~ Atom" followed by '^' is
\* outside the grammar.

RefFail == [ok |-> FALSE, val |-> NaN, rest |-> <<>>]

IsLiteral(tok) ==
    /\ tok # <<>>
    /\ Len(tok) <= 6
    /\ \A i \in 1..Len(tok) : tok[i] \in DigitChars

IsBound(tok, vs) == \E i \in 1..Len(vs) : vs[i].name = tok

BoundValue(tok, vs) ==
    vs[CHOOSE i \in 1..Len(vs) : vs[i].name = tok /\ \A j \in 1..(i - 1) : vs[j].name # tok].val

NextIs(ts, c) == ts # <<>> /\ Head(ts) = Tok(c)

RECURSIVE RefExpr(_, _)
RECURSIVE RefExprTail(_, _, _)
RECURSIVE RefTerm(_, _)
RECURSIVE RefTermTail(_, _, _)
RECURSIVE RefPower(_, _)
RECURSIVE RefAtom(_, _)

RefAtom(ts, vs) ==
    IF ts = <<>> THEN RefFail
    ELSE IF Head(ts) = Tok("(")
    THEN LET e == RefExpr(Tail(ts), vs)
         IN  IF e.ok /\ NextIs(e.rest, ")")
             THEN [ok |-> TRUE, val |-> e.val, rest |-> Tail(e.rest)]
             ELSE RefFail
    ELSE IF Head(ts) = Tok("~")
    THEN LET a == RefAtom(Tail(ts), vs)
         IN  IF a.ok /\ ~NextIs(a.rest, "^")
             THEN [ok |-> TRUE, val |-> Neg(a.val), rest |-> a.rest]
             ELSE RefFail
    ELSE IF IsLiteral(Head(ts))
    THEN [ok |-> TRUE, val |-> Num(DigitsToInt(Head(ts), 0)), rest |-> Tail(ts)]
    ELSE IF IsBound(Head(ts), vs)
    THEN [ok |-> TRUE, val |-> BoundValue(Head(ts), vs), rest |-> Tail(ts)]
    ELSE RefFail

RefPower(ts, vs) ==
    LET a == RefAtom(ts, vs)
    IN  IF a.ok /\ NextIs(a.rest, "^")
        THEN LET p == RefPower(Tail(a.rest), vs)
             IN  IF p.ok
                 THEN [ok |-> TRUE, val |-> calculate(a.val, p.val, "^"), rest |-> p.rest]
                 ELSE RefFail
        ELSE a

RefTermTail(acc, ts, vs) ==
    IF NextIs(ts, "*") \/ NextIs(ts, "/")
    THEN LET p == RefPower(Tail(ts), vs)
         IN  IF p.ok THEN RefTermTail(calculate(acc, p.val, Head(ts)[1]), p.rest, vs)
             ELSE RefFail
    ELSE [ok |-> TRUE, val |-> acc, rest |-> ts]

RefTerm(ts, vs) ==
    LET p == RefPower(ts, vs)
    IN  IF p.ok THEN RefTermTail(p.val, p.rest, vs) ELSE RefFail

RefExprTail(acc, ts, vs) ==
    IF NextIs(ts, "+") \/ NextIs(ts, "-")
    THEN LET t == RefTerm(Tail(ts), vs)
         IN  IF t.ok THEN RefExprTail(calculate(acc, t.val, Head(ts)[1]), t.rest, vs)
             ELSE RefFail
    ELSE [ok |-> TRUE, val |-> acc, rest |-> ts]

RefExpr(ts, vs) ==
    LET t == RefTerm(ts, vs)
    IN  IF t.ok THEN RefExprTail(t.val, t.rest, vs) ELSE RefFail

\* The reference value of a whole token sequence: ok when it is well formed.
RefValue(ts, vs) ==
    LET r == RefExpr(ts, vs)
    IN  [ok |-> r.ok /\ r.rest = <<>>, val |-> r.val]

\* Only literals of at most 6 digits, binary operators and parentheses.
PlainInfix(ts) ==
    \A i \in 1..Len(ts) :
        \/ IsLiteral(ts[i])
        \/ isBinaryOperator(ts[i])
        \/ ts[i] \in {Tok("("), Tok(")")}

\* C2: for a well-formed infix expression of integer literals, the binary
\* operators + - * / ^ and parentheses, every evaluation call returns the value
\* of the reference infix evaluator (precedence ^ over * / over + -, + - * /
\* grouping to the left, ^ to the right).
C2_InfixValue ==
    (Called /\ PlainInfix(tokens)) =>
        LET ref == RefValue(tokens, <<>>) IN ref.ok => result = ref.val

\* "2^3^2" was evaluated to 512, and not to 64.
C2_Witness ==
    /\ exprText = <<"2", "^", "3", "^", "2">>
    /\ call.kind = "eval"
    /\ RefValue(tokens, <<>>).ok
    /\ result = Num(512)

\* The variable list the pass of the last call resolved names in: the default
\* variables with x for eval() and eval(x), the caller's list alone for
\* eval(bindings).
Bindings ==
    IF call.kind = "evalvars" THEN call.vars ELSE defaultVariables \o call.vars

\* C3: for every well-formed expression with a '~' before a literal, a bound
\* name or a parenthesized sub-expression, every evaluation call returns the
\* value of the reference evaluator, in which "~A" is the negation of the atom A
\* alone and so binds tighter than + - * /.
C3_UnaryNegation ==
    (Called /\ \E i \in 1..Len(tokens) : tokens[i] = Tok("~")) =>
        LET ref == RefValue(tokens, Bindings) IN ref.ok => result = ref.val

\* "~3+1" was evaluated to -2, and not to -(3+1).
C3_Witness ==
    /\ exprText = <<"~", "3", "+", "1">>
    /\ call.kind = "eval"
    /\ RefValue(tokens, Bindings).ok
    /\ result = Num(-2)

\* ---- the trace of the last call: stacks[i] is the value stack after item i

\* The value stack before item i of the RPN sequence.
Before(i) == IF i = 1 THEN <<>> ELSE stacks[i - 1]

DefaultValue(name) == BoundValue(name, defaultVariables)

IsDefaultConstant(name) == IsBound(name, defaultVariables)

\* C4 as stated: in eval(bindings), a reference to pi or e that the caller's
\* list has no entry for pushes the default value.
C4_DefaultsRemain ==
    call.kind = "evalvars" =>
        \A i \in 1..Len(stacks) :
            (IsDefaultConstant(rpn[i]) /\ ~IsBound(rpn[i], call.vars)) =>
                stacks[i] = Append(Before(i), DefaultValue(rpn[i]))

\* C4, amended: a reference to pi or e pushes the default value in eval() and
\* eval(x); in eval(bindings) it pushes the value of the caller's first entry
\* of that name, and when the caller's list has no such entry nothing is pushed.
C4_CallerListOnly ==
    \A i \in 1..Len(stacks) :
        IsDefaultConstant(rpn[i]) =>
            IF call.kind # "evalvars"
            THEN stacks[i] = Append(Before(i), DefaultValue(rpn[i]))
            ELSE IF IsBound(rpn[i], call.vars)
            THEN stacks[i] = Append(Before(i), BoundValue(rpn[i], call.vars))
            ELSE stacks[i] = Before(i)

\* "pi" was evaluated by eval(bindings) with a list that has no entry pi: no
\* value was pushed and the result is NaN.
C4_Witness ==
    /\ exprText = <<"p", "i">>
    /\ call.kind = "evalvars"
    /\ ~IsBound(<<"p", "i">>, call.vars)
    /\ stacks = << <<>> >>
    /\ IsNaN(result)

\* Whether the table has an entry with that name, and the f of the first one.
InTable(name, table) == \E k \in 1..Len(table) : table[k].name = name

FirstEntry(name, table) ==
    table[CHOOSE k \in 1..Len(table) :
            table[k].name = name /\ \A j \in 1..(k - 1) : table[j].name # name]

\* Whether item i of the RPN sequence was applied as that function to the value
\* on top of the stack.
AppliedAs(i, f) ==
    /\ Before(i) # <<>>
    /\ stacks[i] = Append(Pop(Before(i)), <<"fn", f, Top(Before(i))>>)

\* C5 as stated: with a table of the caller, a name is a function iff the
\* caller's table or the default table has an entry for it, and an item named by
\* a default function that the caller did not override is applied as it.
C5_TableAddsToDefaults ==
    funcsArg.given =>
        /\ \A i \in 1..Len(tokens) :
              (isFunction(tokens[i], functions) # 0)
                  <=> (InTable(tokens[i], funcsArg.table)
                         \/ InTable(tokens[i], defaultFunctions))
        /\ \A i \in 1..Len(stacks) :
              (InTable(rpn[i], defaultFunctions) /\ ~InTable(rpn[i], funcsArg.table)
                 /\ Before(i) # <<>>)
                  => AppliedAs(i, FirstEntry(rpn[i], defaultFunctions).f)

\* C5, amended: a table of the caller replaces the default table. A name is a
\* function iff the caller's table has an entry for it; an item with such a
\* name is applied as the first entry of that name; an item named by a default
\* function that the caller's table lacks is applied as no function.
C5_TableReplacesDefaults ==
    funcsArg.given =>
        /\ functions = funcsArg.table
        /\ \A i \in 1..Len(tokens) :
              (isFunction(tokens[i], functions) # 0) <=> InTable(tokens[i], funcsArg.table)
        /\ \A i \in 1..Len(stacks) :
              /\ (InTable(rpn[i], funcsArg.table) /\ Before(i) # <<>>)
                    => AppliedAs(i, FirstEntry(rpn[i], funcsArg.table).f)
              /\ (InTable(rpn[i], defaultFunctions) /\ ~InTable(rpn[i], funcsArg.table))
                    => \A k \in 1..Len(defaultFunctions) :
                          ~AppliedAs(i, defaultFunctions[k].f)

\* "f(1)" under a table with two entries f was applied as the first, and
\* "sin(1)" under that table, which has no entry sin, applied no function.
C5_Witness ==
    /\ funcsArg.given
    /\ ~InTable(<<"s", "i", "n">>, funcsArg.table)
    /\ \/ /\ exprText = <<"f", "(", "1", ")">>
          /\ result = <<"fn", "f1", Num(1)>>
       \/ /\ exprText = <<"s", "i", "n", "(", "1", ")">>
          /\ Called
          /\ result = Num(1)

\* C6: no evaluation call changes the text, the function table, the token
\* sequence, the RPN sequence, the two cached printable forms or the balance
\* flag, and a call with the entry point and argument of the first call returns
\* what the first call returned, whatever calls were made in between.
C6_EvalHasNoEffect ==
    [][/\ fields' = fields
       /\ (call' = first'.call) => (result' = first'.result)]_vars

\* The first call was repeated after a different call, on an expression with a
\* value.
C6_Witness ==
    /\ call = first.call
    /\ between
    /\ rpn # <<>>
    /\ ~IsNaN(result)
    /\ result = first.result

\* C7 as stated: no token holds a whitespace character, and the token and RPN
\* sequences are those of the text without its whitespace characters.
C7_AllWhitespaceRemoved ==
    /\ \A i \in 1..Len(tokens) : \A j \in 1..Len(tokens[i]) : ~IsSpaceChar(tokens[i][j])
    /\ tokens = getTokens(SelectSeq(exprText, LAMBDA c : ~IsSpaceChar(c)))
    /\ rpn = getRPN(getTokens(SelectSeq(exprText, LAMBDA c : ~IsSpaceChar(c))), functions)

RECURSIVE Unspaced(_)
\* The text without its ' ' characters, the other characters in their order.
Unspaced(s) ==
    IF s = <<>> THEN <<>>
    ELSE IF Head(s) = " " THEN Unspaced(Tail(s))
    ELSE <<Head(s)>> \o Unspaced(Tail(s))

\* C7, amended: only the space character ' ' is removed. No token holds a
\* space, the tokens of a balanced text spell the text without its spaces (a
\* tab or a newline stays in its token), and the token and RPN sequences are
\* those of the text without its spaces.
C7_OnlySpacesRemoved ==
    /\ text = Unspaced(exprText)
    /\ \A i \in 1..Len(tokens) : \A j \in 1..Len(tokens[i]) : tokens[i][j] # " "
    /\ balanced => Flatten(tokens) = Unspaced(exprText)
    /\ tokens = getTokens(Unspaced(exprText))
    /\ rpn = getRPN(getTokens(Unspaced(exprText)), functions)

\* A text with a space and a tab was compiled: the space is gone, the tab is in
\* a token.
C7_Witness ==
    /\ \E k \in 1..Len(exprText) : exprText[k] = " "
    /\ \E i \in 1..Len(tokens) : \E j \in 1..Len(tokens[i]) : tokens[i][j] = "\t"
    /\ Called

IsSpecialToken(tok) == Len(tok) = 1 /\ tok[1] \in SpecialChars

\* C8: for a balanced text, the tokens spell the stripped text in order, no
\* token is empty, a token that holds a special character is that character
\* alone, and no two tokens that follow each other are both runs of other
\* characters (a run is maximal; special characters next to each other give
\* tokens next to each other).
C8_Tokens ==
    ~Unbalanced(exprText) =>
        /\ Flatten(tokens) = text
        /\ \A i \in 1..Len(tokens) :
              /\ tokens[i] # <<>>
              /\ (\E j \in 1..Len(tokens[i]) : tokens[i][j] \in SpecialChars)
                    => Len(tokens[i]) = 1
        /\ \A i \in 1..(Len(tokens) - 1) :
              IsSpecialToken(tokens[i]) \/ IsSpecialToken(tokens[i + 1])

\* "1a+~" gave the three tokens 1a + ~: one token for the run 1a, and the two
\* special characters next to each other as two tokens.
C8_Witness ==
    /\ exprText = <<"1", "a", "+", "~">>
    /\ tokens = << <<"1", "a">>, <<"+">>, <<"~">> >>

\* Whether item i, met with the value stack before, is one of the three cases:
\* a binary operator with fewer than 2 values, a '~' with no value, a name that
\* is no number, no function, no operator and not bound.
Underflows(i) ==
    \/ isBinaryOperator(rpn[i]) /\ Len(Before(i)) < 2
    \/ isUnaryOperator(rpn[i]) /\ Before(i) = <<>>

Unresolved(i) ==
    /\ ~getNumber(rpn[i]).ok
    /\ ~InTable(rpn[i], functions)
    /\ ~isOperator(rpn[i])
    /\ ~IsBound(rpn[i], Bindings)

\* C9: every item of the RPN sequence that the pass reaches and that is a
\* binary operator met with fewer than 2 values, a '~' met with no value, or an
\* unresolved name, leaves the value stack as it was, and the pass goes on to
\* the next item: the pass ends before the last item only at a function met
\* with no value.
C9_SilentSkip ==
    Called =>
        /\ \A i \in 1..Len(rpn) :
              (i <= Len(stacks) + 1 /\ (Underflows(i) \/ Unresolved(i)))
                  => (i <= Len(stacks) /\ stacks[i] = Before(i))
        /\ IF returned
           THEN /\ Len(stacks) < Len(rpn)
                /\ InTable(rpn[Len(stacks) + 1], functions)
                /\ Before(Len(stacks) + 1) = <<>>
           ELSE Len(stacks) = Len(rpn)

\* "2*a + 1" was evaluated by eval(): a is unbound and skipped, '*' is met with
\* one value and skipped, and the result is 2 + 1.
C9_Witness ==
    /\ exprText = <<"2", "*", "a", " ", "+", " ", "1">>
    /\ call.kind = "eval"
    /\ Unresolved(2)
    /\ Underflows(3)
    /\ result = Num(3)

\* C10: a call that went through the whole RPN sequence returns the value on
\* the value stack when the stack holds exactly one value, and NaN when it is
\* empty or holds two or more.
C10_SingleValue ==
    (Called /\ ~returned) =>
        IF Len(FinalStack) = 1 THEN result = FinalStack[1] ELSE IsNaN(result)

\* "(1)(2)" was evaluated: the pass ended with the two values 1 and 2, and the
\* result is NaN.
C10_Witness ==
    /\ exprText = <<"(", "1", ")", "(", "2", ")">>
    /\ Called
    /\ ~returned
    /\ FinalStack = <<Num(1), Num(2)>>
    /\ IsNaN(result)

\* ---- the trace of the conversion: the output and the operator stack after
\* each token of the for loop of getRPN

RECURSIVE RPNTrace(_, _, _, _)
RPNTrace(st, input, i, funcs) ==
    IF i > Len(input) THEN <<>>
    ELSE <<RPNStep(st, input[i], funcs)>>
             \o RPNTrace(RPNStep(st, input[i], funcs), input, i + 1, funcs)

ConvStart == [rpn |-> <<>>, operators |-> <<>>]

\* The converter's state when it reads token i of the token sequence.
ConvBefore(tr, i) == IF i = 1 THEN ConvStart ELSE tr[i - 1]

HasParen(seq) == \E k \in 1..Len(seq) : seq[k] \in {Tok("("), Tok(")")}

\* The place of the topmost "(" of an operator stack, 0 when it has none.
TopParen(stack) ==
    IF \E k \in 1..Len(stack) : stack[k] = Tok("(")
    THEN CHOOSE k \in 1..Len(stack) :
            stack[k] = Tok("(") /\ \A j \in (k + 1)..Len(stack) : stack[j] # Tok("(")
    ELSE 0

\* C11: in the conversion of the token sequence of a balanced text, whenever a
\* ")" is read a "(" is on the operator stack, and handling the ")" leaves the
\* stack below that "(" in place (less a function right below it); once all
\* tokens are read no "(" is on the stack; the RPN sequence holds no "(" and no
\* ")".
C11_ParenthesesMatch ==
    LET tr == RPNTrace(ConvStart, tokens, 1, functions)
    IN  /\ \A i \in 1..Len(tokens) :
              tokens[i] = Tok(")") =>
                  LET stack == ConvBefore(tr, i).operators
                      below == SubSeq(stack, 1, TopParen(stack) - 1)
                  IN  /\ TopParen(stack) > 0
                      /\ tr[i].operators \in
                            {below} \cup (IF below # <<>> THEN {Pop(below)} ELSE {})
        /\ tokens # <<>> => ~HasParen(tr[Len(tokens)].operators)
        /\ ~HasParen(rpn)

\* "ln((1+2)*3)" was converted: two ")" were read, each with its "(" on the
\* stack, and the RPN sequence is 1 2 + 3 * ln.
C11_Witness ==
    /\ exprText = <<"l", "n", "(", "(", "1", "+", "2", ")", "*", "3", ")">>
    /\ rpn = << <<"1">>, <<"2">>, <<"+">>, <<"3">>, <<"*">>, <<"l", "n">> >>
    /\ Len(SelectSeq(tokens, LAMBDA t : t = Tok(")"))) = 2

\* Whether the converter handles the token as a function name.
IsFunctionName(tok) == ~getNumber(tok).ok /\ InTable(tok, functions)

\* The function names of a sequence of tokens, in their order.
FunctionsOf(seq) == SelectSeq(seq, IsFunctionName)

\* The number of "(" less the number of ")" among tokens a..b.
ParenBalance(a, b) ==
    Len(SelectSeq(SubSeq(tokens, a, b), LAMBDA t : t = Tok("(")))
      - Len(SelectSeq(SubSeq(tokens, a, b), LAMBDA t : t = Tok(")")))

\* Whether token j is the ")" that closes the "(" at token p.
Closes(p, j) ==
    /\ tokens[p] = Tok("(")
    /\ j > p
    /\ ParenBalance(p, j) = 0
    /\ \A k \in p..(j - 1) : ParenBalance(p, k) > 0

\* When a function name is read the output stays as it is and the name is
\* pushed on the operator stack.
FunctionIsPushed(tr) ==
    \A i \in 1..Len(tokens) :
        IsFunctionName(tokens[i]) =>
            /\ tr[i].rpn = ConvBefore(tr, i).rpn
            /\ tr[i].operators = Append(ConvBefore(tr, i).operators, tokens[i])

\* For "f(A)" as the whole token sequence, the RPN sequence is that of A
\* followed by f.
CallIsArgumentThenFunction ==
    (/\ Len(tokens) >= 3
     /\ IsFunctionName(tokens[1])
     /\ Closes(2, Len(tokens)))
        => rpn = Append(getRPN(SubSeq(tokens, 3, Len(tokens) - 1), functions), tokens[1])

\* C12 as stated: a function name is pushed when read; a function leaves the
\* operator stack only at a ")", as the item right below the "(" that the ")"
\* closes, so none is left on the stack for the final loop; for "f(A)" the
\* output is the RPN of A followed by f.
C12_OnlyAtItsParenthesis ==
    LET tr == RPNTrace(ConvStart, tokens, 1, functions)
    IN  /\ FunctionIsPushed(tr)
        /\ \A i \in 1..Len(tokens) :
              LET stack == ConvBefore(tr, i).operators
              IN  Len(FunctionsOf(tr[i].operators)) < Len(FunctionsOf(stack)) =>
                      /\ tokens[i] = Tok(")")
                      /\ TopParen(stack) > 1
                      /\ IsFunctionName(stack[TopParen(stack) - 1])
                      /\ FunctionsOf(SubSeq(stack, TopParen(stack) + 1, Len(stack))) = <<>>
                      /\ tr[i].operators = SubSeq(stack, 1, TopParen(stack) - 2)
        /\ tokens # <<>> => FunctionsOf(tr[Len(tokens)].operators) = <<>>
        /\ CallIsArgumentThenFunction

\* C12, amended: a function name is pushed when read and no incoming operator
\* pops a function. A function name that is directly followed by "(" stays on
\* the stack until the ")" that closes this "(" is handled, and that step moves
\* it to the output, so for "f(A)" the output is the RPN of A followed by f. A
\* function name that is not directly followed by "(" is moved to the output
\* by a ")" that pops it with the operators above a "(", or by the final loop;
\* every function name of the token sequence is in the RPN sequence once.
C12_FunctionsRideTheStack ==
    LET tr == RPNTrace(ConvStart, tokens, 1, functions)
    IN  /\ FunctionIsPushed(tr)
        /\ \A i \in 1..Len(tokens) :
              /\ isOperator(tokens[i]) =>
                    FunctionsOf(tr[i].operators) = FunctionsOf(ConvBefore(tr, i).operators)
              /\ Len(FunctionsOf(tr[i].operators)) < Len(FunctionsOf(ConvBefore(tr, i).operators))
                    => tokens[i] = Tok(")")
        /\ \A i \in 1..(Len(tokens) - 1) :
              (IsFunctionName(tokens[i]) /\ tokens[i + 1] = Tok("(")) =>
                  \E j \in (i + 2)..Len(tokens) :
                      /\ Closes(i + 1, j)
                      /\ \A k \in i..(j - 1) :
                            /\ Len(tr[k].operators) > Len(ConvBefore(tr, i).operators)
                            /\ SubSeq(tr[k].operators, 1, Len(tr[i].operators)) = tr[i].operators
                      /\ tr[j].operators = ConvBefore(tr, i).operators
                      /\ Top(tr[j].rpn) = tokens[i]
        /\ FunctionsOf(rpn) # <<>> => Len(FunctionsOf(rpn)) = Len(FunctionsOf(tokens))
        /\ FunctionsOf(rpn) = <<>> => FunctionsOf(tokens) = <<>>
        /\ CallIsArgumentThenFunction

\* "ln(1)" was converted to 1 ln and evaluated to log(1).
C12_Witness ==
    /\ exprText = <<"l", "n", "(", "1", ")">>
    /\ IsFunctionName(tokens[1])
    /\ Closes(2, 4)
    /\ rpn = << <<"1">>, <<"l", "n">> >>
    /\ result = <<"fn", "log", Num(1)>>

\* The value of a numeric literal: for a text of digits, the integer they spell.
LiteralValue(tok) ==
    IF \A k \in 1..Len(tok) : tok[k] \in DigitChars
    THEN Num(DigitsToInt(tok, 0))
    ELSE getNumber(tok).val

\* C13: for a text that is one numeric literal, the one item of the RPN
\* sequence is a number that parses to the value of the literal, and every
\* evaluation call returns that value.
C13_LiteralPreserved ==
    (Len(tokens) = 1 /\ getNumber(tokens[1]).ok) =>
        /\ Len(rpn) = 1
        /\ getNumber(rpn[1]).ok
        /\ getNumber(rpn[1]).val = LiteralValue(tokens[1])
        /\ Called => result = LiteralValue(tokens[1])

====
